---- MODULE Spec2Model ----
(***************************************************************************)
(* BaseBinding of lib/bindings/base.js: the argument and state checks of   *)
(* every binding method, and the life cycle of the isOpen property that    *)
(* the checks read.                                                        *)
(*                                                                         *)
(* base.js reads this.isOpen and never assigns it.  The assignments, the   *)
(* I/O on the hardware and the invocation of the disconnect callback are   *)
(* made by the concrete bindings that extend BaseBinding; they are         *)
(* modelled after the contract (the Driver... definitions).  A binding is  *)
(* either an instance of BaseBinding itself (kind = "base") or of a        *)
(* concrete binding that calls super.method(...) first (kind = "driver").  *)
(***************************************************************************)
EXTENDS Integers, Sequences, FiniteSets, TLC

\* ------------------------------------------------------------------ bounds
MaxCap == 1    \* largest capacity of the caller's buffer
MaxNum == 2    \* offsets and lengths range over -1 .. MaxNum
MaxSent == 1   \* bytes handed to the operating system, capped

\* ------------------------------------------------------- JavaScript values
\* A value is a record: t is its kind, v its number, its length (string,
\* buffer) or its truth (boolean).
Undefined == [t |-> "undefined", v |-> 0]
Null == [t |-> "null", v |-> 0]
NaN == [t |-> "nan", v |-> 0]
Infinity == [t |-> "infinity", v |-> 0]
Fn == [t |-> "function", v |-> 0]
True == [t |-> "boolean", v |-> 1]
False == [t |-> "boolean", v |-> 0]
Num(n) == [t |-> "number", v |-> n]
Str(n) == [t |-> "string", v |-> n]
Buf(n) == [t |-> "buffer", v |-> n]

\* typeof x
TypeOf(x) ==
  CASE x.t \in {"null", "object", "buffer"} -> "object"
    [] x.t \in {"number", "nan", "infinity"} -> "number"
    [] OTHER -> x.t

\* ToBoolean(x), as `!x` and `if (x)` apply it
Truthy(x) ==
  CASE x.t \in {"undefined", "null", "nan"} -> FALSE
    [] x.t \in {"number", "string", "boolean"} -> x.v # 0
    [] OTHER -> TRUE

\* a + b on numbers (typeof a = typeof b = "number")
Plus(a, b) ==
  IF a.t = "nan" \/ b.t = "nan" THEN NaN
  ELSE IF a.t = "infinity" \/ b.t = "infinity" THEN Infinity
  ELSE Num(a.v + b.v)

\* n < x for an integer n and a number x
LessThan(n, x) ==
  CASE x.t = "nan" -> FALSE
    [] x.t = "infinity" -> TRUE
    [] OTHER -> n < x.v

\* Buffer.isBuffer(x)
IsBuffer(x) == x.t = "buffer"

\* --------------------------------------------------------------- outcomes
\* What a call hands back: a synchronous throw, or a promise that is
\* rejected with an Error or resolved with a value.
AlreadyOpen == "Already open"
NotOpen == "Port is not open"
BufferTooSmall == "buffer is too small"
InvalidArgument == "TypeError"

Throw(e) == [chan |-> "throw", err |-> e, val |-> Undefined]
Reject(e) == [chan |-> "reject", err |-> e, val |-> Undefined]
Resolve(x) == [chan |-> "resolve", err |-> "none", val |-> x]

\* ------------------------------------------------- BaseBinding (base.js)
\* static list(): Promise.resolve()
list == Resolve(Undefined)

\* constructor(opt): "ok" or the TypeError.  typeof null is "object", so a
\* null opt passes the first test and reading null.disconnect throws the
\* engine's TypeError.
constructor_noDisconnectCheck(opt) ==
  IF TypeOf(opt) # "object" THEN Throw(InvalidArgument)
  ELSE IF opt.t = "null" THEN Throw(InvalidArgument)
  ELSE Resolve(Undefined)

constructor(opt) ==
  IF TypeOf(opt) # "object" THEN Throw(InvalidArgument)
  ELSE IF opt.t = "null" THEN Throw(InvalidArgument)
  ELSE IF TypeOf(opt.disconnect) # "function" THEN Throw(InvalidArgument)
  ELSE Resolve(Undefined)

open_noStateCheck(isOpen, path, options) ==
  IF ~Truthy(path) THEN Throw(InvalidArgument)
  ELSE IF TypeOf(options) # "object" THEN Throw(InvalidArgument)
  ELSE Resolve(Undefined)

open(isOpen, path, options) ==
  IF ~Truthy(path) THEN Throw(InvalidArgument)
  ELSE IF TypeOf(options) # "object" THEN Throw(InvalidArgument)
  ELSE IF Truthy(isOpen) THEN Reject(AlreadyOpen)
  ELSE Resolve(Undefined)

close_throws(isOpen) ==
  IF ~Truthy(isOpen) THEN Throw(NotOpen)
  ELSE Resolve(Undefined)

close(isOpen) ==
  IF ~Truthy(isOpen) THEN Reject(NotOpen)
  ELSE Resolve(Undefined)

read_stateFirst(isOpen, buffer, offset, length) ==
  IF ~IsBuffer(buffer) THEN Throw(InvalidArgument)
  ELSE IF TypeOf(offset) # "number" THEN Throw(InvalidArgument)
  ELSE IF TypeOf(length) # "number" THEN Throw(InvalidArgument)
  ELSE IF ~Truthy(isOpen) THEN Reject(NotOpen)
  ELSE IF LessThan(buffer.v, Plus(offset, length)) THEN Reject(BufferTooSmall)
  ELSE Resolve(Undefined)

read(isOpen, buffer, offset, length) ==
  IF ~IsBuffer(buffer) THEN Throw(InvalidArgument)
  ELSE IF TypeOf(offset) # "number" THEN Throw(InvalidArgument)
  ELSE IF TypeOf(length) # "number" THEN Throw(InvalidArgument)
  ELSE IF LessThan(buffer.v, Plus(offset, length)) THEN Reject(BufferTooSmall)
  ELSE IF ~Truthy(isOpen) THEN Reject(NotOpen)
  ELSE Resolve(Undefined)

write_noStateCheck(isOpen, buffer) ==
  IF ~IsBuffer(buffer) THEN Throw(InvalidArgument)
  ELSE Resolve(Undefined)

write(isOpen, buffer) ==
  IF ~IsBuffer(buffer) THEN Throw(InvalidArgument)
  ELSE IF ~Truthy(isOpen) THEN Reject(NotOpen)
  ELSE Resolve(Undefined)

update_noBaudRateCheck(isOpen, options) ==
  IF TypeOf(options) # "object" THEN Throw(InvalidArgument)
  ELSE IF options.t = "null" THEN Throw(InvalidArgument)
  ELSE IF ~Truthy(isOpen) THEN Reject(NotOpen)
  ELSE Resolve(Undefined)

update_rejectsBaudRate(isOpen, options) ==
  IF TypeOf(options) # "object" THEN Throw(InvalidArgument)
  ELSE IF options.t = "null" THEN Throw(InvalidArgument)
  ELSE IF TypeOf(options.baudRate) # "number" THEN Reject(InvalidArgument)
  ELSE IF ~Truthy(isOpen) THEN Reject(NotOpen)
  ELSE Resolve(Undefined)

\* reading options.baudRate of a null options throws the engine's TypeError
update(isOpen, options) ==
  IF TypeOf(options) # "object" THEN Throw(InvalidArgument)
  ELSE IF options.t = "null" THEN Throw(InvalidArgument)
  ELSE IF TypeOf(options.baudRate) # "number" THEN Throw(InvalidArgument)
  ELSE IF ~Truthy(isOpen) THEN Reject(NotOpen)
  ELSE Resolve(Undefined)

set(isOpen, options) ==
  IF TypeOf(options) # "object" THEN Throw(InvalidArgument)
  ELSE IF ~Truthy(isOpen) THEN Reject(NotOpen)
  ELSE Resolve(Undefined)

get_strictFalse(isOpen) ==
  IF isOpen = False THEN Reject(NotOpen)
  ELSE Resolve(Undefined)

get(isOpen) ==
  IF ~Truthy(isOpen) THEN Reject(NotOpen)
  ELSE Resolve(Undefined)

flush_pending(isOpen) ==
  IF ~Truthy(isOpen) THEN Reject(NotOpen)
  ELSE [chan |-> "none", err |-> "none", val |-> Undefined]

flush(isOpen) ==
  IF ~Truthy(isOpen) THEN Reject(NotOpen)
  ELSE Resolve(Undefined)

drain(isOpen) ==
  IF ~Truthy(isOpen) THEN Reject(NotOpen)
  ELSE Resolve(Undefined)

\* ------------------------------------------------------------------ state
VARIABLES
  kind,     \* "none" before construction, then "base" or "driver"
  isOpen,   \* this.isOpen, a JavaScript value
  conn,     \* the settings of the open connection: path and baudRate
  flags,    \* the control lines of the hardware
  sent,     \* bytes handed to the operating system for writing
  buf,      \* the contents of the caller's buffer
  lost,     \* options.disconnect was called and the port not opened since
  last,     \* the latest call: op, args, out (what the caller got), cb
            \* (options.disconnect was called), pre (isOpen before the call)
  other     \* a second binding instance: kind, isOpen, the path it is open
            \* on, and its latest call (op, args, out)

vars == <<kind, isOpen, conn, flags, sent, buf, lost, last, other>>

\* ------------------------------------------------------------------ inputs
Bytes == {0, 1}
Buffers == UNION {[1..n -> Bytes] : n \in 0..MaxCap}

\* the configuration handed to the constructor: x tells the other fields
Config(d, x) == [t |-> "object", v |-> x, disconnect |-> d]
Configs ==
  {Undefined, Null, Fn, Str(1), Num(1)}
    \cup {Config(d, x) : d \in {Fn, Undefined, Null, Str(1), Config(Fn, 0)}, x \in {0, 1}}

\* openOptions and update's options
Options(b) == [t |-> "object", v |-> 0, baudRate |-> b]
BaudRates == {Undefined, Num(9600), Num(115200)}
OptionValues == {Undefined, Null, Str(1)} \cup {Options(b) : b \in BaudRates}
Paths == {Undefined, Str(0), Str(8)}

\* set's options: a flag is true, false or left out (undefined)
FlagNames == {"brk", "cts", "dsr", "dtr", "rts"}
DefaultFlags == [brk |-> FALSE, cts |-> FALSE, dsr |-> FALSE, dtr |-> TRUE, rts |-> TRUE]
FlagOptions(f) == [t |-> "object", v |-> 0, given |-> f]
NoFlags == [n \in FlagNames |-> Undefined]
SetValues ==
  {Undefined, Null, Str(1), FlagOptions(NoFlags),
   FlagOptions([NoFlags EXCEPT !.brk = True]),
   FlagOptions([NoFlags EXCEPT !.dtr = False, !.rts = False])}

Numbers == {Num(n) : n \in -1..MaxNum} \cup {NaN, Infinity}
OffsetValues == Numbers \cup {Undefined}
\* what read and write are handed as their buffer: the caller's Buffer or not
BufferValues == {Buf(Len(buf)), Str(2)}

NoConn == [path |-> Undefined, baudRate |-> Undefined]
NoOutcome == [chan |-> "none", err |-> "none", val |-> Undefined]
NoCall == [op |-> "none", args |-> <<>>, out |-> NoOutcome, cb |-> FALSE, pre |-> Undefined]
NoOther ==
  [kind |-> "none", isOpen |-> Undefined, path |-> Undefined,
   call |-> [op |-> "none", args |-> <<>>, out |-> NoOutcome]]

Init ==
  /\ kind = "none"
  /\ isOpen = Undefined
  /\ conn = NoConn
  /\ flags = DefaultFlags
  /\ sent = 0
  /\ buf \in Buffers
  /\ lost = FALSE
  /\ last = NoCall
  /\ other = NoOther

\* the call is over: what the caller got of it
Report(op, args, out, cb) ==
  last' = [op |-> op, args |-> args, out |-> out, cb |-> cb, pre |-> isOpen]

Ends_dropsConnection(op, args, out) ==
  /\ Report(op, args, out, FALSE)
  /\ conn' = NoConn
  /\ UNCHANGED <<kind, isOpen, flags, sent, buf, lost, other>>

\* a call that ends in base.js: nothing but the report changes
Ends(op, args, out) ==
  /\ Report(op, args, out, FALSE)
  /\ UNCHANGED <<kind, isOpen, conn, flags, sent, buf, lost, other>>

\* super.method(...) resolved in a concrete binding, which goes on to its I/O
Proceeds(out) == kind = "driver" /\ out.chan = "resolve"

\* ------------------------------------------- the concrete binding's part
\* isOpen as the concrete binding's constructor leaves it
DriverConstructed == False

FlagsApplied_partial(options) ==
  IF options.t = "null" THEN flags
  ELSE [n \in FlagNames |->
          IF options.given[n] = Undefined THEN flags[n] ELSE Truthy(options.given[n])]

\* the flags set applies: the provided value, or the default
FlagsApplied(options) ==
  IF options.t = "null" THEN DefaultFlags
  ELSE [n \in FlagNames |->
          IF options.given[n] = Undefined THEN DefaultFlags[n] ELSE Truthy(options.given[n])]

\* the baud rate open applies
BaudRateOf(options) == IF options.t = "null" THEN Undefined ELSE options.baudRate

DriverOpen(path, options) ==
  /\ isOpen' = True
  /\ conn' = [path |-> path, baudRate |-> BaudRateOf(options)]
  /\ flags' = DefaultFlags
  /\ lost' = FALSE
  /\ Report("open", <<path, options>>, Resolve(Undefined), FALSE)
  /\ UNCHANGED <<kind, sent, buf, other>>

DriverClose ==
  /\ isOpen' = False
  /\ conn' = NoConn
  /\ Report("close", <<>>, Resolve(Undefined), FALSE)
  /\ UNCHANGED <<kind, flags, sent, buf, lost, other>>

\* up to length bytes arrive and are stored from offset on
DriverRead(buffer, offset, length) ==
  /\ IF offset.t = "number" /\ length.t = "number" /\ offset.v >= 0 /\ length.v >= 0
     THEN \E n \in 0..length.v, b \in Bytes :
            /\ buf' = [i \in 1..Len(buf) |->
                        IF offset.v < i /\ i <= offset.v + n THEN b ELSE buf[i]]
            /\ Report("read", <<buffer, offset, length>>, Resolve(Num(n)), FALSE)
     ELSE /\ buf' = buf
          /\ Report("read", <<buffer, offset, length>>, Resolve(Num(0)), FALSE)
  /\ UNCHANGED <<kind, isOpen, conn, flags, sent, lost, other>>

DriverWrite(buffer) ==
  /\ sent + buffer.v <= MaxSent
  /\ sent' = sent + buffer.v
  /\ Report("write", <<buffer>>, Resolve(Undefined), FALSE)
  /\ UNCHANGED <<kind, isOpen, conn, flags, buf, lost, other>>

DriverUpdate(options) ==
  /\ conn' = [conn EXCEPT !.baudRate = options.baudRate]
  /\ Report("update", <<options>>, Resolve(Undefined), FALSE)
  /\ UNCHANGED <<kind, isOpen, flags, sent, buf, lost, other>>

DriverSet(options) ==
  /\ flags' = FlagsApplied(options)
  /\ Report("set", <<options>>, Resolve(Undefined), FALSE)
  /\ UNCHANGED <<kind, isOpen, conn, sent, buf, lost, other>>

\* get, flush and drain change nothing the model tells; get hands the lines back
DriverDone(op, x) ==
  /\ Report(op, <<>>, Resolve(x), FALSE)
  /\ UNCHANGED <<kind, isOpen, conn, flags, sent, buf, lost, other>>

DriverDisconnect_alsoCompletes(op, args) ==
  /\ isOpen' = False
  /\ conn' = NoConn
  /\ lost' = TRUE
  /\ Report(op, args, Resolve(Undefined), TRUE)
  /\ UNCHANGED <<kind, flags, sent, buf, other>>

\* the operation finds the port gone: options.disconnect is called instead of
\* the operation's own completion, and the binding is closed
DriverDisconnect(op, args) ==
  /\ isOpen' = False
  /\ conn' = NoConn
  /\ lost' = TRUE
  /\ Report(op, args, NoOutcome, TRUE)
  /\ UNCHANGED <<kind, flags, sent, buf, other>>

\* ------------------------------------------------------------- operations
CallList == Ends("list", <<>>, list)

\* new BaseBinding(opt), or new of a concrete binding, whose constructor
\* calls super(opt) first
New(opt, k) ==
  /\ kind = "none"
  /\ LET out == constructor(opt) IN
       IF out.chan = "throw" THEN Ends("constructor", <<opt>>, out)
       ELSE /\ kind' = k
            /\ isOpen' = IF k = "driver" THEN DriverConstructed ELSE isOpen
            /\ Report("constructor", <<opt>>, out, FALSE)
            /\ UNCHANGED <<conn, flags, sent, buf, lost, other>>

CallOpen(path, options) ==
  /\ kind # "none"
  /\ LET out == open(isOpen, path, options) IN
       IF Proceeds(out) THEN DriverOpen(path, options)
       ELSE Ends("open", <<path, options>>, out)

CallClose ==
  /\ kind # "none"
  /\ LET out == close(isOpen) IN
       IF Proceeds(out) THEN DriverClose \/ DriverDisconnect("close", <<>>)
       ELSE Ends("close", <<>>, out)

CallRead(buffer, offset, length) ==
  /\ kind # "none"
  /\ LET out == read(isOpen, buffer, offset, length) IN
       IF Proceeds(out)
       THEN \/ DriverRead(buffer, offset, length)
            \/ DriverDisconnect("read", <<buffer, offset, length>>)
       ELSE Ends("read", <<buffer, offset, length>>, out)

CallWrite(buffer) ==
  /\ kind # "none"
  /\ LET out == write(isOpen, buffer) IN
       IF Proceeds(out) THEN DriverWrite(buffer) \/ DriverDisconnect("write", <<buffer>>)
       ELSE Ends("write", <<buffer>>, out)

CallUpdate(options) ==
  /\ kind # "none"
  /\ LET out == update(isOpen, options) IN
       IF Proceeds(out) THEN DriverUpdate(options) \/ DriverDisconnect("update", <<options>>)
       ELSE Ends("update", <<options>>, out)

CallSet(options) ==
  /\ kind # "none"
  /\ LET out == set(isOpen, options) IN
       IF Proceeds(out) THEN DriverSet(options) \/ DriverDisconnect("set", <<options>>)
       ELSE Ends("set", <<options>>, out)

CallGet ==
  /\ kind # "none"
  /\ LET out == get(isOpen) IN
       IF Proceeds(out) THEN DriverDone("get", flags) \/ DriverDisconnect("get", <<>>)
       ELSE Ends("get", <<>>, out)

CallFlush ==
  /\ kind # "none"
  /\ LET out == flush(isOpen) IN
       IF Proceeds(out) THEN DriverDone("flush", Undefined) \/ DriverDisconnect("flush", <<>>)
       ELSE Ends("flush", <<>>, out)

CallDrain ==
  /\ kind # "none"
  /\ LET out == drain(isOpen) IN
       IF Proceeds(out) THEN DriverDone("drain", Undefined) \/ DriverDisconnect("drain", <<>>)
       ELSE Ends("drain", <<>>, out)

Next ==
  \/ CallList
  \/ \E opt \in Configs, k \in {"base", "driver"} : New(opt, k)
  \/ \E path \in Paths, options \in OptionValues : CallOpen(path, options)
  \/ CallClose
  \/ \E buffer \in BufferValues, offset \in OffsetValues, length \in OffsetValues :
       CallRead(buffer, offset, length)
  \/ \E buffer \in BufferValues : CallWrite(buffer)
  \/ \E options \in OptionValues : CallUpdate(options)
  \/ \E options \in SetValues : CallSet(options)
  \/ CallGet
  \/ CallFlush
  \/ CallDrain

Spec == Init /\ [][Next]_vars

\* ------------------------------------------------------- a second instance
\* The same class instantiated once more: its methods read its own isOpen.
OtherCalled(op, args, out) == [op |-> op, args |-> args, out |-> out]

OtherNew(opt, k) ==
  /\ other.kind = "none"
  /\ LET out == constructor(opt) IN
       other' = IF out.chan = "throw"
                THEN [other EXCEPT !.call = OtherCalled("constructor", <<opt>>, out)]
                ELSE [other EXCEPT !.kind = k,
                                   !.isOpen = IF k = "driver" THEN DriverConstructed ELSE @,
                                   !.call = OtherCalled("constructor", <<opt>>, out)]
  /\ UNCHANGED <<kind, isOpen, conn, flags, sent, buf, lost, last>>

OtherOpen(path, options) ==
  /\ other.kind # "none"
  /\ LET out == open(other.isOpen, path, options) IN
       other' = IF other.kind = "driver" /\ out.chan = "resolve"
                THEN [other EXCEPT !.isOpen = True, !.path = path,
                                   !.call = OtherCalled("open", <<path, options>>, out)]
                ELSE [other EXCEPT !.call = OtherCalled("open", <<path, options>>, out)]
  /\ UNCHANGED <<kind, isOpen, conn, flags, sent, buf, lost, last>>

OtherClose ==
  /\ other.kind # "none"
  /\ LET out == close(other.isOpen) IN
       other' = IF other.kind = "driver" /\ out.chan = "resolve"
                THEN [other EXCEPT !.isOpen = False, !.path = Undefined,
                                   !.call = OtherCalled("close", <<>>, out)]
                ELSE [other EXCEPT !.call = OtherCalled("close", <<>>, out)]
  /\ UNCHANGED <<kind, isOpen, conn, flags, sent, buf, lost, last>>

\* two instances, each constructed, opened and closed
NextTwo ==
  \/ \E opt \in {Config(Fn, 0), Null}, k \in {"base", "driver"} : New(opt, k)
  \/ \E path \in Paths, options \in OptionValues : CallOpen(path, options)
  \/ CallClose
  \/ \E opt \in {Config(Fn, 0), Null}, k \in {"base", "driver"} : OtherNew(opt, k)
  \/ \E path \in Paths, options \in OptionValues : OtherOpen(path, options)
  \/ OtherClose

SpecTwo == Init /\ [][NextTwo]_vars

\* ------------------------------------------------------------------ claims
\* the arguments the contract calls valid
ValidPath(p) == p.t = "string" /\ p.v > 0
ValidOptions(o) == o.t = "object" /\ o.baudRate.t = "number"
WellFormedCall(c) ==
  CASE c.op = "read" ->
         /\ IsBuffer(c.args[1])
         /\ c.args[2].t = "number" /\ c.args[3].t = "number"
         /\ c.args[2].v >= 0 /\ c.args[3].v >= 0
         /\ c.args[2].v + c.args[3].v <= c.args[1].v
    [] c.op = "write" -> IsBuffer(c.args[1])
    [] c.op = "update" -> ValidOptions(c.args[1])
    [] c.op = "set" -> c.args[1].t = "object"
    [] OTHER -> TRUE
IOOps == {"read", "write", "update", "set", "get", "flush", "drain", "close"}
Completed(c) == c.out.chan \in {"throw", "reject", "resolve"}

\* C1: after an open that resolved isOpen is true and an open with valid
\* arguments is rejected with AlreadyOpen; after a close that resolved isOpen
\* is false and a close is rejected with NotOpen.
C1_OpenCloseAlternate ==
  /\ (last.op = "open" /\ last.out.chan = "resolve") =>
       /\ isOpen = True
       /\ \A p \in Paths, o \in OptionValues :
            ValidPath(p) /\ ValidOptions(o) => open(isOpen, p, o) = Reject(AlreadyOpen)
  /\ (last.op = "close" /\ last.out.chan = "resolve") =>
       /\ isOpen = False
       /\ close(isOpen) = Reject(NotOpen)

\* C2: right after a construction that succeeded, isOpen is the boolean false.
C2_ClosedAfterConstruction ==
  (last.op = "constructor" /\ last.out.chan = "resolve") => isOpen = False

\* C3: while isOpen is false, read, write, update, set, get, flush, drain and
\* close with well-formed arguments are rejected with NotOpen, and the call
\* changes neither isOpen nor the connection, the flags, the bytes sent or the
\* caller's buffer.
C3_ClosedReportsNotOpen ==
  [][(isOpen = False /\ last'.op \in IOOps /\ WellFormedCall(last')) =>
       /\ last'.out = Reject(NotOpen)
       /\ ~last'.cb
       /\ UNCHANGED <<isOpen, conn, flags, sent, buf>>]_vars

C3_Witness ==
  /\ last.op = "write" /\ IsBuffer(last.args[1]) /\ last.args[1].v > 0
  /\ last.pre = False /\ last.out = Reject(NotOpen)
  /\ sent > 0

\* C4: while isOpen is true, open with a valid path and valid options is
\* rejected (not thrown) with AlreadyOpen, isOpen stays true and the settings
\* of the connection are as before.
C4_OpenWhileOpen ==
  [][(isOpen = True /\ last'.op = "open"
        /\ ValidPath(last'.args[1]) /\ ValidOptions(last'.args[2])) =>
       /\ last'.out = Reject(AlreadyOpen)
       /\ isOpen' = True
       /\ conn' = conn /\ flags' = flags]_vars

C4_Witness ==
  /\ last.op = "open" /\ last.pre = True /\ last.out = Reject(AlreadyOpen)
  /\ ValidPath(last.args[1]) /\ ValidOptions(last.args[2])
  /\ isOpen = True
  /\ conn.baudRate # last.args[2].baudRate

\* offset + length > capacity, in the arithmetic of JavaScript numbers
SumExceeds(offset, length, capacity) ==
  IF offset.t = "nan" \/ length.t = "nan" THEN FALSE
  ELSE IF offset.t = "infinity" \/ length.t = "infinity" THEN TRUE
  ELSE offset.v + length.v > capacity

\* C5: read with a Buffer and numbers offset and length whose sum exceeds the
\* capacity of the buffer is rejected with BufferTooSmall, open or closed, and
\* the buffer's contents are as before.
C5_BufferTooSmall ==
  [][(/\ last'.op = "read" /\ IsBuffer(last'.args[1])
      /\ TypeOf(last'.args[2]) = "number" /\ TypeOf(last'.args[3]) = "number"
      /\ SumExceeds(last'.args[2], last'.args[3], last'.args[1].v)) =>
       /\ last'.out = Reject(BufferTooSmall)
       /\ buf' = buf]_vars

C5_Witness ==
  /\ last.op = "read" /\ last.out = Reject(BufferTooSmall)
  /\ last.pre = False
  /\ Len(buf) > 0 /\ buf[1] = 1
  /\ SumExceeds(last.args[2], last.args[3], Len(buf))

\* C6: a configuration that is no object, or whose disconnect is no function,
\* makes the constructor throw a TypeError, and no binding exists after it.
BadConfig(opt) == opt.t # "object" \/ opt.disconnect.t # "function"

C6_ConstructorThrows ==
  (last.op = "constructor" /\ BadConfig(last.args[1])) =>
    /\ last.out = Throw(InvalidArgument)
    /\ kind = "none"
    /\ isOpen = Undefined

C6_Witness ==
  /\ last.op = "constructor"
  /\ last.args[1] = Config(Str(1), 1)
  /\ last.out = Throw(InvalidArgument)
  /\ kind = "none"

\* C7: an InvalidArgument is always thrown and never a rejection; NotOpen,
\* AlreadyOpen and BufferTooSmall are always rejections and never thrown.
StateFailures == {NotOpen, AlreadyOpen, BufferTooSmall}

C7_ErrorChannels ==
  /\ last.out.err = InvalidArgument => last.out.chan = "throw"
  /\ last.out.err \in StateFailures => last.out.chan = "reject"
  /\ last.out.chan = "throw" => last.out.err = InvalidArgument
  /\ last.out.chan = "reject" => last.out.err \in StateFailures

C7_Witness ==
  /\ last.op = "update" /\ last.pre = False
  /\ last.args[1] = Options(Undefined)
  /\ last.out = Throw(InvalidArgument)

\* C8: open with a path that is empty or absent, or with options that are no
\* object with a numeric baudRate, fails with InvalidArgument.
C8_OpenValidates ==
  (last.op = "open" /\ (~ValidPath(last.args[1]) \/ ~ValidOptions(last.args[2]))) =>
    last.out = Throw(InvalidArgument)

\* C9: once options.disconnect was called on an open binding, the binding is
\* closed: every close until the port is opened again is rejected with NotOpen
\* and none throws.
C9_CloseAfterDisconnect ==
  lost =>
    /\ isOpen = False
    /\ close(isOpen) = Reject(NotOpen)
    /\ (last.op = "close" /\ ~last.cb) => last.out = Reject(NotOpen)

C9_Witness ==
  /\ lost
  /\ last.op = "close" /\ last.pre = False /\ last.out = Reject(NotOpen)

\* C10: every call either completes (throws, rejects or resolves) or has
\* options.disconnect called in its place, never both and never neither; the
\* callback is called only by an operation on an open port that finds the
\* port gone.
C10_CompletionOrDisconnect ==
  last.op # "none" =>
    /\ ~(Completed(last) <=> last.cb)
    /\ last.cb => (kind = "driver" /\ last.pre = True /\ lost /\ isOpen = False)

C10_Witness ==
  /\ last.cb /\ last.op = "read"
  /\ ~Completed(last)

\* C11: update throws InvalidArgument when options.baudRate is no number; with
\* a numeric baudRate it is rejected with NotOpen while the port is not open;
\* when it resolves the port was open and still is, on the same path, and
\* the baud rate of the connection is the one asked for.
C11_UpdateBaudRate ==
  [][last'.op = "update" =>
       /\ ~ValidOptions(last'.args[1]) => last'.out = Throw(InvalidArgument)
       /\ (ValidOptions(last'.args[1]) /\ isOpen # True) => last'.out = Reject(NotOpen)
       /\ last'.out.chan = "resolve" =>
            /\ isOpen = True /\ isOpen' = True
            /\ conn'.path = conn.path
            /\ conn'.baudRate = last'.args[1].baudRate]_vars

C11_Witness ==
  /\ last.op = "update" /\ last.out.chan = "resolve"
  /\ last.args[1] = Options(Num(115200))
  /\ isOpen = True /\ conn = [path |-> Str(8), baudRate |-> Num(115200)]

\* the flags a set call asks for: each flag as given, or its default
FlagAsked(options, n, default) ==
  IF options.given[n] = Undefined THEN default ELSE options.given[n] = True
FlagsAsked(options) ==
  [brk |-> FlagAsked(options, "brk", FALSE),
   cts |-> FlagAsked(options, "cts", FALSE),
   dsr |-> FlagAsked(options, "dsr", FALSE),
   dtr |-> FlagAsked(options, "dtr", TRUE),
   rts |-> FlagAsked(options, "rts", TRUE)]

C13_ExclusiveOpen ==
  /\ ~(isOpen = True /\ other.isOpen = True /\ other.path = conn.path)
  /\ ~(/\ isOpen = True
       /\ other.call.op = "open" /\ other.call.out.chan = "resolve"
       /\ other.call.args[1] = conn.path)

\* an empty array, what a list that finds no port is to resolve with
EmptySequence == [t |-> "array", v |-> 0]

\* C14: list does not throw and, no port being found, resolves with an empty
\* sequence of port infos, whatever the state of the binding, which it leaves
\* as it was.
C14_ListResolvesEmpty ==
  last.op = "list" => last.out = Resolve(EmptySequence)

\* C15: a read that resolved was called on an open port with an offset and a
\* length that are integers, not negative, and whose sum does not exceed the
\* capacity of the buffer.
C15_ReadResolvesInRange ==
  (last.op = "read" /\ last.out.chan = "resolve") =>
    /\ last.pre = True
    /\ last.args[2].t = "number" /\ last.args[3].t = "number"
    /\ last.args[2].v >= 0 /\ last.args[3].v >= 0
    /\ last.args[2].v + last.args[3].v <= last.args[1].v

\* arguments of the wrong type or shape
Malformed(c) ==
  CASE c.op = "open" -> ~ValidPath(c.args[1]) \/ ~ValidOptions(c.args[2])
    [] c.op = "read" ->
         \/ ~IsBuffer(c.args[1])
         \/ TypeOf(c.args[2]) # "number" \/ TypeOf(c.args[3]) # "number"
    [] c.op = "write" -> ~IsBuffer(c.args[1])
    [] c.op = "update" -> ~ValidOptions(c.args[1])
    [] c.op = "set" -> c.args[1].t # "object"
    [] OTHER -> FALSE

\* C16: a call with malformed arguments throws InvalidArgument, open or
\* closed, and is never answered with NotOpen or AlreadyOpen; a read whose
\* arguments have the right types and exceed the capacity is rejected with
\* BufferTooSmall, open or closed.
C16_ShapeBeforeState ==
  /\ Malformed(last) => last.out = Throw(InvalidArgument)
  /\ (/\ last.op = "read" /\ ~Malformed(last)
      /\ SumExceeds(last.args[2], last.args[3], last.args[1].v)) =>
       last.out = Reject(BufferTooSmall)

\* C17: a call on a binding that ends in an error leaves isOpen, the
\* connection, the flags, the bytes sent and the caller's buffer as they
\* were; isOpen changes only by an open that resolves, a close that resolves
\* or a call that finds the port gone (options.disconnect is called).
C17_ErrorsChangeNothing ==
  [][kind # "none" =>
       /\ last'.out.chan \in {"throw", "reject"} =>
            UNCHANGED <<kind, isOpen, conn, flags, sent, buf, lost>>
       /\ isOpen' # isOpen =>
            \/ last'.op = "open" /\ last'.out.chan = "resolve"
            \/ last'.op = "close" /\ last'.out.chan = "resolve"
            \/ last'.cb]_vars

C17_Witness ==
  /\ last.op = "read" /\ last.out = Reject(BufferTooSmall)
  /\ last.pre = True /\ isOpen = True
  /\ conn = [path |-> Str(8), baudRate |-> Num(9600)]
  /\ sent > 0

\* one outcome: a throw or a rejection with its error, or a resolution
OneOutcome(out) ==
  \/ out.chan \in {"throw", "reject"} /\ out.err # "none" /\ out.val = Undefined
  \/ out.chan = "resolve" /\ out.err = "none"

\* C18: every method, whatever it is called with, hands back one outcome, a
\* throw, a rejected promise or a resolved promise; and a call in whose place
\* options.disconnect was not called has ended with one.
C18_ExactlyOneOutcome ==
  /\ OneOutcome(list)
  /\ \A opt \in Configs : OneOutcome(constructor(opt))
  /\ \A p \in Paths, o \in OptionValues : OneOutcome(open(isOpen, p, o))
  /\ OneOutcome(close(isOpen))
  /\ \A b \in BufferValues, x \in OffsetValues, y \in OffsetValues :
       OneOutcome(read(isOpen, b, x, y))
  /\ \A b \in BufferValues : OneOutcome(write(isOpen, b))
  /\ \A o \in OptionValues : OneOutcome(update(isOpen, o))
  /\ \A o \in SetValues : OneOutcome(set(isOpen, o))
  /\ OneOutcome(get(isOpen)) /\ OneOutcome(flush(isOpen)) /\ OneOutcome(drain(isOpen))
  /\ (last.op # "none" /\ ~last.cb) => OneOutcome(last.out)

C18_Witness ==
  /\ last.op = "flush" /\ last.pre = True
  /\ last.out = Resolve(Undefined) /\ ~last.cb

\* read's arguments within the capacity of the buffer
WithinCapacity(b, x, y) ==
  /\ IsBuffer(b) /\ x.t = "number" /\ y.t = "number"
  /\ x.v >= 0 /\ y.v >= 0 /\ x.v + y.v <= b.v

\* C19: whatever isOpen is, a boolean or not, with valid arguments close
\* either resolves or rejects, open resolves exactly when close rejects, and
\* read within capacity, write, update, set, get, flush and drain resolve
\* exactly when close resolves.
C19_OpenXorClose ==
  LET closes == close(isOpen).chan = "resolve" IN
    /\ close(isOpen).chan \in {"resolve", "reject"}
    /\ \A p \in Paths, o \in OptionValues :
         (ValidPath(p) /\ ValidOptions(o)) => (open(isOpen, p, o).chan = "resolve" <=> ~closes)
    /\ \A b \in BufferValues, x \in OffsetValues, y \in OffsetValues :
         WithinCapacity(b, x, y) => (read(isOpen, b, x, y).chan = "resolve" <=> closes)
    /\ \A b \in BufferValues : IsBuffer(b) => (write(isOpen, b).chan = "resolve" <=> closes)
    /\ \A o \in OptionValues : ValidOptions(o) => (update(isOpen, o).chan = "resolve" <=> closes)
    /\ \A o \in SetValues : o.t = "object" => (set(isOpen, o).chan = "resolve" <=> closes)
    /\ get(isOpen).chan = "resolve" <=> closes
    /\ flush(isOpen).chan = "resolve" <=> closes
    /\ drain(isOpen).chan = "resolve" <=> closes

C19_Witness ==
  /\ kind = "base" /\ isOpen = Undefined
  /\ last.op = "open" /\ last.pre = Undefined /\ last.out = Resolve(Undefined)
  /\ ValidPath(last.args[1]) /\ ValidOptions(last.args[2])

====
